---- MODULE Spec2Model ----
(***************************************************************************)
(* Santa workshop scheduling, "Model A": SolutionManager (orchestrator),   *)
(* SantaSolver (problem builder, solver call, result extractor) and the    *)
(* Family / WorkshopDay entities.  The external MILP solver (CBC through   *)
(* pyomo) is the environment: it answers a built problem with a            *)
(* termination condition and, when it has an incumbent, a value for every  *)
(* variable.                                                               *)
(***************************************************************************)
EXTENDS Integers, Sequences, FiniteSets, TLC

VARIABLES
    families,           \* SolutionManager.families: id (= position) -> Family
    assigned_day,       \* Family.assigned_day of every family
    current_occupancy,  \* WorkshopDay.current_occupancy of every day
    assigned_families,  \* WorkshopDay.assigned_families of every day (list of ids)
    status,             \* termination condition seen by the last SantaSolver.solve
    x,                  \* values of model.x; a variable without a value is not in DOMAIN x
    z,                  \* values of model.z
    success,            \* what the last SantaSolver.solve returned
    raised,             \* the last SolutionManager.solve / extraction let an exception out
    raw_assignments,    \* the dict last returned by get_raw_assignments, in insertion order
    submission,         \* the 'solution' column written by generate_submission
    pc,                 \* position of the run
    solves,             \* number of SolutionManager.solve calls made
    budget,             \* number of SolutionManager.solve calls the run makes at most
    feasible            \* the (x, z) values that satisfy the constraints solve builds

vars == <<families, assigned_day, current_occupancy, assigned_families, status, x, z,
          success, raised, raw_assignments, submission, pc, solves, budget, feasible>>

----------------------------------------------------------------------------
(* Bounds of the model *)

NumFam == 2          \* at most this many families are loaded
NumDays == 5         \* days_range is 1..NumDays (the program loads 1..100)
MaxSolves == 2       \* SolutionManager.solve is called at most this often in a run

(* Program constants *)

MAX_CAPACITY == 300
MIN_CAPACITY == 100
UNASSIGNED == -1
RatioPercent == 1    \* optimizer.options['ratio'] = 0.01, as a percentage

HAPPINESS_POINTS == <<100, 90, 85, 80, 75, 70, 60, 50, 40, 30>>

HappinessPoints(rank) == HAPPINESS_POINTS[rank + 1]

AcceptedStatuses == {"optimal", "feasible", "maxTimeLimit"}

Days == 1 .. NumDays

----------------------------------------------------------------------------
(* Inputs: the families load_data reads.  A family is a size and a list of *)
(* distinct preferred days inside the day range; its id is its position.   *)

Family(n, prefs) == [n_members |-> n, preferences |-> prefs]

FamilyKinds ==
    { Family(50, <<1>>), Family(50, <<2, 1>>), Family(200, <<1, 2>>), Family(150, <<5>>) }

Population == UNION {[1 .. n -> FamilyKinds] : n \in 1 .. NumFam}

(* Six families of 100: three fill day 1, two want day 2, the sixth is     *)
(* shut out of day 1 and can go to day 2 (rank 1) or to day 3 (rank 2).    *)
GapFamilies ==
    << Family(100, <<1>>), Family(100, <<1>>), Family(100, <<1>>),
       Family(100, <<2>>), Family(100, <<2>>), Family(100, <<1, 2, 3>>) >>

FamilyIds(fams) == 1 .. Len(fams)

----------------------------------------------------------------------------
(* Helpers *)

RECURSIVE SumSeq(_)
SumSeq(s) == IF s = <<>> THEN 0 ELSE Head(s) + SumSeq(Tail(s))

RECURSIVE Flatten(_)
Flatten(ss) == IF ss = <<>> THEN <<>> ELSE Head(ss) \o Flatten(Tail(ss))

Range(s) == {s[i] : i \in DOMAIN s}

(* A Python dict as the list of its (key, value) items in insertion order. *)
DictKeys(d) == {d[i][1] : i \in DOMAIN d}

DictGet(d, k) == LET i == CHOOSE j \in DOMAIN d : d[j][1] = k IN d[i][2]

DictPut(d, k, v) ==
    IF k \in DictKeys(d)
    THEN [i \in DOMAIN d |-> IF d[i][1] = k THEN <<k, v>> ELSE d[i]]
    ELSE Append(d, <<k, v>>)

----------------------------------------------------------------------------
(* SantaSolver.solve: the problem built from the families *)

(* valid_assignments: one (fam.id, day) per family and preferred day *)
ValidAssignments(fams) ==
    Flatten([i \in 1 .. Len(fams) |->
                [j \in 1 .. Len(fams[i].preferences) |-> <<i, fams[i].preferences[j]>>]])

Assignments(fams) == Range(ValidAssignments(fams))

(* Variant: ranks counted from 1 *)
ObjectiveRule_RankFromOne(fams, xv) ==
    SumSeq([k \in 1 .. Len(fams) |->
        SumSeq([j \in 1 .. Len(fams[k].preferences) |->
            xv[<<k, fams[k].preferences[j]>>] * HappinessPoints(j)])])

ObjectiveRule(fams, xv) ==
    SumSeq([k \in 1 .. Len(fams) |->
        SumSeq([j \in 1 .. Len(fams[k].preferences) |->
            xv[<<k, fams[k].preferences[j]>>] * HappinessPoints(j - 1)])])

(* Variant: every family must get a day *)
OneDayRule_Mandatory(fams, xv, fam_id) ==
    SumSeq([j \in 1 .. Len(fams[fam_id].preferences) |->
                xv[<<fam_id, fams[fam_id].preferences[j]>>]]) = 1

OneDayRule(fams, xv, fam_id) ==
    SumSeq([j \in 1 .. Len(fams[fam_id].preferences) |->
                xv[<<fam_id, fams[fam_id].preferences[j]>>]]) <= 1

(* day_demand_map[d]: the families that list d, once per listing *)
DayDemandMap(fams, d) ==
    LET va == ValidAssignments(fams)
        hits == SelectSeq(va, LAMBDA a : a[2] = d)
    IN  [k \in 1 .. Len(hits) |-> hits[k][1]]

Occupancy(fams, xv, d) ==
    LET dm == DayDemandMap(fams, d)
    IN  SumSeq([k \in 1 .. Len(dm) |-> xv[<<dm[k], d>>] * fams[dm[k]].n_members])

(* Variant: a day nobody requests is skipped, as in the upper bound *)
MinOpeningRule_SkipNoDemand(fams, xv, zv, d) ==
    IF DayDemandMap(fams, d) = <<>>
    THEN TRUE
    ELSE Occupancy(fams, xv, d) >= 100 * zv[d]

(* Variant: no minimum occupancy for an open day *)
MinOpeningRule_NoMinimum(fams, xv, zv, d) ==
    IF DayDemandMap(fams, d) = <<>>
    THEN 0 >= 100 * zv[d]
    ELSE Occupancy(fams, xv, d) >= 0 * zv[d]

MinOpeningRule(fams, xv, zv, d) ==
    IF DayDemandMap(fams, d) = <<>>
    THEN 0 >= 100 * zv[d]
    ELSE Occupancy(fams, xv, d) >= 100 * zv[d]

MaxOpeningRule(fams, xv, zv, d) ==
    IF DayDemandMap(fams, d) = <<>>
    THEN TRUE
    ELSE Occupancy(fams, xv, d) <= 300 * zv[d]

(* The constraint system OneDay, MinOpen, MaxOpen over binary x and z *)
Satisfies(fams, xv, zv) ==
    /\ \A f \in FamilyIds(fams) : OneDayRule(fams, xv, f)
    /\ \A d \in Days : MinOpeningRule(fams, xv, zv, d)
    /\ \A d \in Days : MaxOpeningRule(fams, xv, zv, d)

Solutions(fams) ==
    {s \in [x : [Assignments(fams) -> {0, 1}], z : [Days -> {0, 1}]] :
        Satisfies(fams, s.x, s.z)}

(* optimizer.solve: the external solver's answers to the built problem.    *)
(* With 'ratio' set, CBC stops and reports "optimal" once the incumbent is *)
(* within that relative gap of the best bound; on the time limit it may    *)
(* hold an incumbent or none; a solver that is missing or crashes raises.  *)
BestObjective(fams, sols) ==
    LET objs == {ObjectiveRule(fams, s.x) : s \in sols}
    IN  CHOOSE m \in objs : \A o \in objs : o <= m

WithinGap(fams, sols) ==
    LET best == BestObjective(fams, sols)
    IN  {s \in sols : 100 * (best - ObjectiveRule(fams, s.x)) <= RatioPercent * best}

Response(st, exc, xv, zv) == [status |-> st, exception |-> exc, x |-> xv, z |-> zv]

OracleResponses(fams, sols) ==
    {Response("optimal", FALSE, s.x, s.z) : s \in WithinGap(fams, sols)}
    \cup {Response(st, FALSE, s.x, s.z) : st \in {"feasible", "maxTimeLimit"}, s \in sols}
    \cup {Response(st, FALSE, <<>>, <<>>) : st \in {"maxTimeLimit", "infeasible"}}
    \cup {Response("exception", TRUE, <<>>, <<>>)}

(* The return value of SantaSolver.solve for one answer of the solver *)
SolverAccepts(r) == ~r.exception /\ r.status \in AcceptedStatuses

----------------------------------------------------------------------------
(* SantaSolver.get_raw_assignments: walks model.Assignments in order and   *)
(* stores the day of every variable above 0.5 under its family id; reading *)
(* a variable that has no value raises.                                    *)

RECURSIVE RawFrom(_, _, _, _)
RawFrom(va, xv, k, acc) ==
    IF k > Len(va) THEN [ok |-> TRUE, assignments |-> acc]
    ELSE IF va[k] \notin DOMAIN xv THEN [ok |-> FALSE, assignments |-> <<>>]
    ELSE RawFrom(va, xv, k + 1,
                 IF 2 * xv[va[k]] > 1 THEN DictPut(acc, va[k][1], va[k][2]) ELSE acc)

(* Variant: the (fam_id, day) pair unpacked the wrong way round *)
GetRawAssignments_Swapped(fams, xv) ==
    LET got == RawFrom(ValidAssignments(fams), xv, 1, <<>>)
    IN  [ok |-> got.ok,
         assignments |-> [i \in DOMAIN got.assignments |->
                            <<got.assignments[i][2], got.assignments[i][1]>>]]

GetRawAssignments(fams, xv) == RawFrom(ValidAssignments(fams), xv, 1, <<>>)

----------------------------------------------------------------------------
(* SolutionManager._apply_results after the extraction: every family is    *)
(* reset, then every item of the dict whose key is a loaded family is      *)
(* assigned and added to its day.                                          *)

ResetAndAssign(fams, raw) ==
    [f \in FamilyIds(fams) |->
        IF f \in DictKeys(raw) THEN DictGet(raw, f) ELSE UNASSIGNED]

(* WorkshopDay.add_family for every item in turn: <<occupancy, members>> *)
RECURSIVE AddFamilies(_, _, _, _)
AddFamilies(fams, items, occ, members) ==
    IF items = <<>> THEN <<occ, members>>
    ELSE LET f == Head(items)[1]
             d == Head(items)[2]
         IN  IF f \in FamilyIds(fams)
             THEN AddFamilies(fams, Tail(items),
                              [occ EXCEPT ![d] = @ + fams[f].n_members],
                              [members EXCEPT ![d] = Append(@, f)])
             ELSE AddFamilies(fams, Tail(items), occ, members)

(* generate_submission: the cell written for a family *)
SolutionCell(day) == IF day = UNASSIGNED THEN "x" ELSE ToString(day)

----------------------------------------------------------------------------
(* State after SolutionManager() and load_data.  The problem solve builds   *)
(* reads only the families and the day range, which never change after     *)
(* loading, so its feasible region is worked out once.                     *)

Loaded(fams) ==
    /\ families = fams
    /\ feasible = Solutions(fams)
    /\ assigned_day = [f \in FamilyIds(fams) |-> UNASSIGNED]
    /\ current_occupancy = [d \in Days |-> 0]
    /\ assigned_families = [d \in Days |-> <<>>]
    /\ status = "none"
    /\ z = <<>>
    /\ success = FALSE
    /\ raised = FALSE
    /\ raw_assignments = <<>>
    /\ submission = <<>>
    /\ solves = 0

Init ==
    /\ \E fams \in Population : Loaded(fams)
    /\ x = <<>>
    /\ pc = "loaded"
    /\ budget = MaxSolves

(* SolutionManager.solve: build, call the solver, and on success extract   *)
(* and apply.                                                              *)
ManagerSolve ==
    /\ pc = "loaded"
    /\ solves < budget
    /\ solves' = solves + 1
    /\ \E r \in OracleResponses(families, feasible) :
        /\ status' = r.status
        /\ x' = r.x
        /\ z' = r.z
        /\ success' = SolverAccepts(r)
        /\ IF SolverAccepts(r)
           THEN LET got == GetRawAssignments(families, r.x)
                IN  IF got.ok
                    THEN LET days == AddFamilies(families, got.assignments,
                                                 current_occupancy, assigned_families)
                         IN  /\ raw_assignments' = got.assignments
                             /\ assigned_day' = ResetAndAssign(families, got.assignments)
                             /\ current_occupancy' = days[1]
                             /\ assigned_families' = days[2]
                             /\ raised' = FALSE
                    ELSE /\ raised' = TRUE
                         /\ UNCHANGED <<raw_assignments, assigned_day,
                                        current_occupancy, assigned_families>>
           ELSE /\ raised' = FALSE
                /\ UNCHANGED <<raw_assignments, assigned_day,
                               current_occupancy, assigned_families>>
    /\ UNCHANGED <<families, submission, pc, budget, feasible>>

(* SolutionManager.generate_submission, the last step of the run *)
GenerateSubmission ==
    /\ pc = "loaded"
    /\ submission' = [f \in FamilyIds(families) |-> SolutionCell(assigned_day[f])]
    /\ pc' = "written"
    /\ UNCHANGED <<families, assigned_day, current_occupancy, assigned_families, status,
                   x, z, success, raised, raw_assignments, solves, budget, feasible>>

Next == ManagerSolve \/ GenerateSubmission

Spec == Init /\ [][Next]_vars

(* One run of the pipeline as main() makes it: load, solve once, write *)
InitRun ==
    /\ \E fams \in Population \cup {GapFamilies} : Loaded(fams)
    /\ x = <<>>
    /\ pc = "loaded"
    /\ budget = 1

SpecRun == InitRun /\ [][Next]_vars

(* get_raw_assignments alone, on any 0/1 values of the x variables *)
InitExtract ==
    /\ \E fams \in Population : Loaded(fams)
    /\ x \in [Assignments(families) -> {0, 1}]
    /\ pc = "extract"
    /\ budget = 0

Extract ==
    /\ pc = "extract"
    /\ LET got == GetRawAssignments(families, x)
       IN  /\ raised' = ~got.ok
           /\ raw_assignments' = got.assignments
    /\ pc' = "extracted"
    /\ UNCHANGED <<families, assigned_day, current_occupancy, assigned_families, status,
                   x, z, success, submission, solves, budget, feasible>>

NextExtract == Extract

SpecExtract == InitExtract /\ [][NextExtract]_vars

----------------------------------------------------------------------------
(* Vocabulary of the properties *)

Applied == solves >= 1 /\ success /\ ~raised

Rejected == solves >= 1 /\ ~success

AssignedTo(d) == {f \in FamilyIds(families) : assigned_day[f] = d}

RECURSIVE SumMembers(_)
SumMembers(fs) ==
    IF fs = {} THEN 0
    ELSE LET f == CHOOSE g \in fs : TRUE
         IN  families[f].n_members + SumMembers(fs \ {f})

NoDemand(d) == \A f \in FamilyIds(families) : d \notin Range(families[f].preferences)

TotalDemand(d) == SumMembers({f \in FamilyIds(families) : d \in Range(families[f].preferences)})

RankOf(f, d) == (CHOOSE j \in DOMAIN families[f].preferences : families[f].preferences[j] = d) - 1

AssignedScore ==
    SumSeq([i \in DOMAIN raw_assignments |->
        HappinessPoints(RankOf(raw_assignments[i][1], raw_assignments[i][2]))])

Selected(f) == {a \in DOMAIN x : a[1] = f /\ 2 * x[a] > 1}

ScenarioA == << Family(150, <<5>>), Family(150, <<5>>) >>

----------------------------------------------------------------------------
(* C1: after any number of solve calls, every day's occupancy is 0 or      *)
(* lies in [MIN_CAPACITY, MAX_CAPACITY].                                   *)
SemicontinuousOccupancy ==
    \A d \in Days :
        \/ current_occupancy[d] = 0
        \/ (MIN_CAPACITY <= current_occupancy[d] /\ current_occupancy[d] <= MAX_CAPACITY)

(* C2: after every applied solve, also a repeated one, each day's          *)
(* occupancy is the total size of the families whose assigned_day is that  *)
(* day, and its assigned_families holds exactly those families once each.  *)
RerunKeepsDerivedDayState ==
    Applied =>
        \A d \in Days :
            /\ current_occupancy[d] = SumMembers(AssignedTo(d))
            /\ Range(assigned_families[d]) = AssignedTo(d)
            /\ Len(assigned_families[d]) = Cardinality(AssignedTo(d))

(* C3: when a solve call ends rejected (INFEASIBLE, or the solver raised), *)
(* no exception leaves solve and every family is unassigned, whatever the  *)
(* earlier calls did.                                                      *)
RejectedLeavesAllUnassigned ==
    Rejected =>
        /\ ~raised
        /\ \A f \in FamilyIds(families) : assigned_day[f] = UNASSIGNED

(* C4: the returned assignment map holds each family at most once and only *)
(* with a day of that family's preference list, so every assigned_day is   *)
(* -1 or one of the family's preferences.                                  *)
AssignmentsWithinPreferences ==
    /\ \A i, j \in DOMAIN raw_assignments :
            raw_assignments[i][1] = raw_assignments[j][1] => i = j
    /\ \A i \in DOMAIN raw_assignments :
            /\ raw_assignments[i][1] \in FamilyIds(families)
            /\ raw_assignments[i][2] \in Range(families[raw_assignments[i][1]].preferences)
    /\ \A f \in FamilyIds(families) :
            \/ assigned_day[f] = UNASSIGNED
            \/ assigned_day[f] \in Range(families[f].preferences)

AssignedSecondChoice ==
    /\ Applied
    /\ \E f \in FamilyIds(families) :
            /\ Len(families[f].preferences) >= 2
            /\ assigned_day[f] = families[f].preferences[2]
            /\ \E i \in DOMAIN raw_assignments : raw_assignments[i] = <<f, assigned_day[f]>>

(* C5: values that select more than one day for a family make the          *)
(* extractor fail instead of returning a map.                              *)
ExtractorRejectsDoubleSelection ==
    (pc = "extracted" /\ \E f \in FamilyIds(families) : Cardinality(Selected(f)) > 1)
        => raised

(* C6: a day no family lists has z = 0 in every assignment satisfying the  *)
(* built constraints, and its occupancy is 0 after an applied solve.       *)
UnrequestedDayStaysClosed ==
    \A d \in Days :
        NoDemand(d) =>
            /\ \A s \in feasible : s.z[d] = 0
            /\ Applied => current_occupancy[d] = 0

SomeDayOpened ==
    /\ Applied
    /\ \E d \in Days : z[d] = 1 /\ current_occupancy[d] > 0
    /\ \E d \in Days : NoDemand(d) /\ z[d] = 0

(* C7: whenever SantaSolver.solve returned True, every x variable has a    *)
(* value, the extraction completed, and the verdict was OPTIMAL or         *)
(* FEASIBLE.                                                               *)
AcceptedVerdictHasValues ==
    (solves >= 1 /\ success) =>
        /\ DOMAIN x = Assignments(families)
        /\ ~raised
        /\ status \in {"optimal", "feasible"}

LowDemand(f) ==
    \A j \in DOMAIN families[f].preferences :
        TotalDemand(families[f].preferences[j]) < MIN_CAPACITY

ZeroX == [a \in Assignments(families) |-> 0]

ZeroZ == [d \in Days |-> 0]

ZeroAssignmentFeasible == [x |-> ZeroX, z |-> ZeroZ] \in feasible

NothingAssignedThoughPossible ==
    /\ Applied
    /\ x = ZeroX
    /\ z = ZeroZ
    /\ \E s \in feasible : \E a \in Assignments(families) : s.x[a] = 1

====
